---- MODULE Spec2Model ----
(***************************************************************************)
(* nostr-tx-broadcast: a bridge that listens for nostr events of kind      *)
(* 28333, checks their "magic" tag against the configured bitcoin network, *)
(* decodes the hex transactions of their "transactions" tag and submits    *)
(* them to bitcoin core (src/src/main.rs).                                 *)
(*                                                                         *)
(* The model follows main() from argument parsing to the notification      *)
(* loop, and the handler closure together with broadcast_txs for every     *)
(* delivered notification.  A node call is split in two steps (the call    *)
(* is issued, the node replies) so that the node's outcome is an input.    *)
(* The library parsers (Magic::from_str, HexString::from_string,           *)
(* Transaction::consensus_decode) are modelled by their results on a small *)
(* alphabet of strings.  The start-up println! lines are not recorded;     *)
(* out holds the lines printed while the current notification is handled.  *)
(***************************************************************************)
EXTENDS Integers, Sequences, FiniteSets, TLC

(* ---------------------------- bounds ----------------------------------- *)

\* number of notifications delivered in one run
MaxEvents == 2
\* number of tags of one event
MaxTags == 2
\* number of values of one "transactions" tag
MaxVals == 3
\* number of values of one "magic" tag
MaxMagicVals == 2
\* number of tag values of one event, all tags together
MaxStrings == 4
\* number of relays given on the command line
MaxRelays == 1
\* number of tags of one event, and of notifications delivered in one run,
\* in the runs over events with repeated tags (WideSpec)
WideTags == 3
WideEvents == 1

(* --------------------------- constants --------------------------------- *)

\* Kind::Custom(28333)
bitcoin_tx_kind == 28333

\* Option values: None is the empty sequence, Some(x) the sequence <<x>>
None == <<>>
Some(x) == <<x>>

Networks == {"Bitcoin", "Testnet"}

\* Network::magic()
NetworkMagic(network) ==
    IF network = "Bitcoin" THEN <<249, 190, 180, 217>> ELSE <<11, 17, 9, 7>>

\* Magic::from_str(m).ok(): eight hex digits give the four bytes, any other
\* string fails
MagicFromStr(m) ==
    CASE m = "f9beb4d9" -> Some(<<249, 190, 180, 217>>)
      [] m = "0b110907" -> Some(<<11, 17, 9, 7>>)
      [] OTHER -> None

\* HexString::from_string(tx).ok() followed by as_bytes(): the bytes of a
\* string of hex digits, None for any other string.  "aa" and "bb" stand
\* for the serialisations of two transactions.
HexFromString(s) ==
    CASE s = "aa" -> Some(<<170>>)
      [] s = "bb" -> Some(<<187>>)
      [] s = "f9beb4d9" -> Some(<<249, 190, 180, 217>>)
      [] s = "0b110907" -> Some(<<11, 17, 9, 7>>)
      [] OTHER -> None

\* Transaction::consensus_decode(bytes).ok(); a transaction is known by its
\* txid
ConsensusDecode(bytes) ==
    CASE bytes = <<170>> -> Some([txid |-> "txidA"])
      [] bytes = <<187>> -> Some([txid |-> "txidB"])
      [] OTHER -> None

\* the filter_map closure of the extraction: hex first, then binary
DecodeTx(s) ==
    IF HexFromString(s) = None THEN None ELSE ConsensusDecode(HexFromString(s)[1])

(* ----------------------------- inputs ---------------------------------- *)

SeqsUpTo(S, n) == UNION {[1..k -> S] : k \in 0..n}

MagicStrs == {"f9beb4d9", "0b110907", "zz"}
TxStrs == {"aa", "bb", "zz", "f9beb4d9"}

\* nostr Tag: custom kinds are Tag::Generic(kind, values); "e" is the
\* Tag::Event variant
Tags ==
    [kind : {"magic"}, variant : {"Generic"}, values : SeqsUpTo(MagicStrs, MaxMagicVals)]
    \cup [kind : {"transactions"}, variant : {"Generic"}, values : SeqsUpTo(TxStrs, MaxVals)]
    \cup [kind : {"e"}, variant : {"Event"}, values : {<<"aa">>}]

\* the lists of at most n tags with at most m values in all
RECURSIVE TagListsOf(_, _)
TagListsOf(n, m) ==
    IF n = 0 THEN {<<>>}
    ELSE {<<>>} \cup
         UNION {{<<t>> \o rest : rest \in TagListsOf(n - 1, m - Len(t.values))} :
                t \in {u \in Tags : Len(u.values) <= m}}

TagLists == TagListsOf(MaxTags, MaxStrings)

\* kind 1 (a text note) is a kind the bridge does not listen for
Events == [kind : {bitcoin_tx_kind, 1}, tags : TagLists]

NoEvent == [kind |-> 0, tags |-> <<>>]

\* RelayPoolNotification: Event(url, event) or another variant
Notifications ==
    [type : {"Event"}, event : Events] \cup [type : {"Message"}, event : {NoEvent}]

\* events with room for a repeated tag
WideNotifications ==
    [type : {"Event"},
     event : [kind : {bitcoin_tx_kind, 1}, tags : TagListsOf(WideTags, MaxStrings)]]
    \cup [type : {"Message"}, event : {NoEvent}]

NoNotification == [type |-> "none", event |-> NoEvent]

\* the reason the node gives for a failed call
NodeErrors == {"rejected"}

(* ------------------------ the handler's functions ---------------------- *)

\* mutant: the last tag of that kind is taken
RECURSIVE FindFrom_Last(_, _, _)
FindFrom_Last(tags, kind, j) ==
    IF j > Len(tags) THEN 0
    ELSE LET later == FindFrom_Last(tags, kind, j + 1) IN
         IF later # 0 THEN later
         ELSE IF tags[j].kind = kind THEN j
         ELSE 0

\* Iterator::find over the tags: the index of the first tag of that kind,
\* 0 when there is none
RECURSIVE FindFrom(_, _, _)
FindFrom(tags, kind, j) ==
    IF j > Len(tags) THEN 0
    ELSE IF tags[j].kind = kind THEN j
    ELSE FindFrom(tags, kind, j + 1)

FindTag(tags, kind) == FindFrom(tags, kind, 1)

\* mutant: the identity tag must carry exactly one value
MagicOf_SingleValue(tags) ==
    LET j == FindTag(tags, "magic") IN
    IF j = 0 THEN None
    ELSE IF tags[j].variant = "Generic"
         THEN IF Len(tags[j].values) # 1 THEN None
              ELSE MagicFromStr(tags[j].values[1])
         ELSE None

\* lines 78-89: the magic of the event, an Option
MagicOf(tags) ==
    LET j == FindTag(tags, "magic") IN
    IF j = 0 THEN None
    ELSE IF tags[j].variant = "Generic"
         THEN IF Len(tags[j].values) = 0 THEN None
              ELSE MagicFromStr(tags[j].values[1])
         ELSE None

\* mutant: an event without a usable identity is let through
MagicAccepted_AbsentAccepts(tags, network) ==
    IF MagicOf(tags) # None
    THEN MagicOf(tags)[1] = NetworkMagic(network)
    ELSE TRUE

\* lines 91-99: TRUE when the handler goes on to the transactions
MagicAccepted(tags, network) ==
    IF MagicOf(tags) # None
    THEN MagicOf(tags)[1] = NetworkMagic(network)
    ELSE FALSE

\* mutant: the first entry that does not decode ends the extraction
RECURSIVE FilterMapDecode_StopAtInvalid(_)
FilterMapDecode_StopAtInvalid(vals) ==
    IF vals = <<>> THEN <<>>
    ELSE IF DecodeTx(Head(vals)) = None THEN <<>>
    ELSE DecodeTx(Head(vals)) \o FilterMapDecode_StopAtInvalid(Tail(vals))

\* lines 109-113: filter_map(..).collect() over the values of the tag
RECURSIVE FilterMapDecode(_)
FilterMapDecode(vals) ==
    IF vals = <<>> THEN <<>>
    ELSE DecodeTx(Head(vals)) \o FilterMapDecode(Tail(vals))

\* lines 102-117: the transactions of the event
ExtractTxs(tags) ==
    LET j == FindTag(tags, "transactions") IN
    IF j = 0 THEN <<>>
    ELSE IF tags[j].variant = "Generic"
         THEN FilterMapDecode(tags[j].values)
         ELSE <<>>

\* txids.join(",")
RECURSIVE Join(_)
Join(ids) ==
    IF ids = <<>> THEN ""
    ELSE IF Len(ids) = 1 THEN ids[1]
    ELSE ids[1] \o "," \o Join(Tail(ids))

\* lines 160-162
Txids(ts) == [k \in 1..Len(ts) |-> ts[k].txid]

\* line 164
SummaryLine(ts) == "Submitted transactions: " \o Join(Txids(ts))

(* ------------------------------ state ---------------------------------- *)

VARIABLES
    args,        \* the parsed command line: network, number of relays
    pc,          \* where main() is
    pool,        \* the nostr client: relays added, connected, subscribed
    rpc,         \* the bitcoin core client: "none", "created", "confirmed"
    hpc,         \* the handler: "idle", "in_call", "returned"
    cur,         \* the notification being handled
    txs,         \* broadcast_txs: its argument
    idx,         \* broadcast_txs: position of the for loop of lines 136-146
    calls,       \* every call made to the node, in order
    out,         \* lines printed while cur is handled
    dispatch,    \* what broadcast_txs returned for cur: "none", "Ok", "Err"
    handler,     \* what the closure returned for cur: "none", "Ok"
    nDelivered   \* notifications delivered so far

vars == <<args, pc, pool, rpc, hpc, cur, txs, idx, calls, out, dispatch,
          handler, nDelivered>>

startupVars == <<pool, rpc>>
handlerVars == <<hpc, cur, txs, idx, calls, out, dispatch, handler, nDelivered>>

Init ==
    /\ args \in [network : Networks, relays : 0..MaxRelays]
    /\ pc = "start"
    /\ pool = [added |-> 0, connected |-> FALSE, subscribed |-> FALSE]
    /\ rpc = "none"
    /\ hpc = "idle"
    /\ cur = NoNotification
    /\ txs = <<>>
    /\ idx = 0
    /\ calls = <<>>
    /\ out = <<>>
    /\ dispatch = "none"
    /\ handler = "none"
    /\ nDelivered = 0

(* ----------------------------- start-up -------------------------------- *)

\* mutant: the relay list is not checked
CheckRelays_NoCheck ==
    /\ pc = "start"
    /\ pc' = "add_relays"
    /\ UNCHANGED <<args, startupVars, handlerVars>>

\* lines 45-47
CheckRelays ==
    /\ pc = "start"
    /\ pc' = IF args.relays = 0 THEN "exit_err" ELSE "add_relays"
    /\ UNCHANGED <<args, startupVars, handlerVars>>

\* lines 49-51: one turn of the loop; add_relay can fail, and ? returns
AddRelay ==
    /\ pc = "add_relays"
    /\ pool.added < args.relays
    /\ \E ok \in BOOLEAN :
        IF ok
        THEN /\ pool' = [pool EXCEPT !.added = @ + 1]
             /\ pc' = pc
        ELSE /\ pc' = "exit_err"
             /\ pool' = pool
    /\ UNCHANGED <<args, rpc, handlerVars>>

\* line 52
Connect ==
    /\ pc = "add_relays"
    /\ pool.added = args.relays
    /\ pool' = [pool EXCEPT !.connected = TRUE]
    /\ pc' = "subscribe"
    /\ UNCHANGED <<args, rpc, handlerVars>>

\* lines 54-59
Subscribe ==
    /\ pc = "subscribe"
    /\ pool' = [pool EXCEPT !.subscribed = TRUE]
    /\ pc' = "rpc_new"
    /\ UNCHANGED <<args, rpc, handlerVars>>

\* lines 62-66: unwrap() panics when the client cannot be made
RpcNew ==
    /\ pc = "rpc_new"
    /\ \E ok \in BOOLEAN :
        IF ok
        THEN rpc' = "created" /\ pc' = "get_network_info"
        ELSE rpc' = rpc /\ pc' = "panicked"
    /\ UNCHANGED <<args, pool, handlerVars>>

\* mutant: a failed query is ignored (.ok() in place of .unwrap())
GetNetworkInfo_IgnoresFailure ==
    /\ pc = "get_network_info"
    /\ \E ok \in BOOLEAN :
        IF ok
        THEN rpc' = "confirmed" /\ pc' = "listening"
        ELSE rpc' = rpc /\ pc' = "listening"
    /\ UNCHANGED <<args, pool, handlerVars>>

\* lines 68-70: unwrap() panics when the node does not answer
GetNetworkInfo ==
    /\ pc = "get_network_info"
    /\ \E ok \in BOOLEAN :
        IF ok
        THEN rpc' = "confirmed" /\ pc' = "listening"
        ELSE rpc' = rpc /\ pc' = "panicked"
    /\ UNCHANGED <<args, pool, handlerVars>>

(* ------------------------- the notification loop ----------------------- *)

\* mutant: the kind of the event is not looked at
Accepted_AnyKind(n, network) ==
    /\ n.type = "Event"
    /\ MagicAccepted(n.event.tags, network)

\* lines 75-99: TRUE when the handler reaches the extraction
Accepted(n, network) ==
    /\ n.type = "Event"
    /\ n.event.kind = bitcoin_tx_kind
    /\ MagicAccepted(n.event.tags, network)

\* mutant: two transactions are still sent one by one
Strategy_PackageFromThree(ts) ==
    CASE Len(ts) = 0 -> "none"
      [] Len(ts) \in {1, 2} -> "send_raw_transaction"
      [] OTHER -> "submit_package"

\* mutant: the empty list falls into the package arm
Strategy_EmptyPackage(ts) ==
    CASE Len(ts) = 1 -> "send_raw_transaction"
      [] OTHER -> "submit_package"

\* mutant: transactions submitted for an earlier notification are skipped
Strategy_SkipSeen(ts) ==
    IF \E k \in 1..Len(calls) : calls[k].txs = ts THEN "none"
    ELSE CASE Len(ts) = 0 -> "none"
           [] Len(ts) = 1 -> "send_raw_transaction"
           [] OTHER -> "submit_package"

\* mutant: the arm for one transaction is missing
Strategy_NoSingleArm(ts) ==
    CASE Len(ts) = 0 -> "none"
      [] OTHER -> "submit_package"

\* line 131: the arm of match txs.len()
Strategy(ts) ==
    CASE Len(ts) = 0 -> "none"
      [] Len(ts) = 1 -> "send_raw_transaction"
      [] OTHER -> "submit_package"

\* the record of a call to the node: the number of the notification it is
\* made for, its operation and arguments, and the node's answer ("pending"
\* until the node has answered, then "Ok" or the node's error)
Call(op, ts) == [ev |-> nDelivered + 1, op |-> op, txs |-> ts, res |-> "pending"]

\* the call in flight gets its answer
Answered(res) == [calls EXCEPT ![Len(calls)].res = res]

\* mutant: the closure is spawned, and the loop takes the next notification
\* while a call to the node is in flight
LoopReady_Spawned == pc = "listening" /\ hpc \in {"idle", "in_call"}

\* lines 73-74: handle_notifications awaits the closure before it takes
\* the next notification
LoopReady == pc = "listening" /\ hpc = "idle"

\* lines 74-121 and 130-151: a notification is delivered and handled up to
\* the return of the closure or to the first call of the node
DeliverFrom(notifications, max) ==
    /\ LoopReady
    /\ nDelivered < max
    /\ \E n \in notifications :
        /\ cur' = n
        /\ nDelivered' = nDelivered + 1
        /\ out' = <<>>
        /\ IF ~Accepted(n, args.network)
           THEN /\ txs' = <<>>
                /\ idx' = 0
                /\ calls' = calls
                /\ dispatch' = "none"
                /\ handler' = "Ok"
                /\ hpc' = "returned"
           ELSE LET ts == ExtractTxs(n.event.tags) IN
                /\ txs' = ts
                /\ CASE Strategy(ts) = "none" ->
                          /\ idx' = 0
                          /\ calls' = calls
                          /\ dispatch' = "Ok"
                          /\ handler' = "Ok"
                          /\ hpc' = "returned"
                     [] Strategy(ts) = "send_raw_transaction" ->
                          /\ idx' = 1
                          /\ calls' = Append(calls, Call("send_raw_transaction", <<ts[1]>>))
                          /\ dispatch' = "none"
                          /\ handler' = "none"
                          /\ hpc' = "in_call"
                     [] OTHER ->
                          /\ idx' = 0
                          /\ calls' = Append(calls, Call("submit_package", ts))
                          /\ dispatch' = "none"
                          /\ handler' = "none"
                          /\ hpc' = "in_call"
    /\ UNCHANGED <<args, pc, startupVars>>

Deliver == DeliverFrom(Notifications, MaxEvents)

\* the same step over the events with repeated tags
DeliverWide == DeliverFrom(WideNotifications, WideEvents)

\* mutant: a rejected transaction is sent again
SendReply_Retry(res) ==
    LET tx == txs[idx]
        line == IF res = "Ok" THEN "Broadcasted tx: " \o tx.txid
                ELSE "Error broadcasting tx: " \o res
    IN  IF res # "Ok"
        THEN /\ calls' = Append(Answered(res),
                                [ev |-> nDelivered, op |-> "send_raw_transaction",
                                 txs |-> <<tx>>, res |-> "pending"])
             /\ out' = Append(out, line)
             /\ UNCHANGED <<idx, hpc, dispatch, handler>>
        ELSE /\ calls' = Answered(res)
             /\ out' = out \o <<line, SummaryLine(txs)>>
             /\ dispatch' = "Ok"
             /\ handler' = "Ok"
             /\ hpc' = "returned"
             /\ idx' = idx

\* mutant: a rejected transaction ends broadcast_txs before the summary
SendReply_NoSummaryOnError(res) ==
    LET tx == txs[idx]
        line == IF res = "Ok" THEN "Broadcasted tx: " \o tx.txid
                ELSE "Error broadcasting tx: " \o res
    IN  /\ calls' = Answered(res)
        /\ out' = IF res = "Ok" THEN out \o <<line, SummaryLine(txs)>>
                  ELSE Append(out, line)
        /\ dispatch' = "Ok"
        /\ handler' = "Ok"
        /\ hpc' = "returned"
        /\ idx' = idx

\* lines 137-146, 160-166: send_raw_transaction has answered
SendReply(res) ==
    LET tx == txs[idx]
        line == IF res = "Ok" THEN "Broadcasted tx: " \o tx.txid
                ELSE "Error broadcasting tx: " \o res
    IN  IF idx < Len(txs)
        THEN /\ idx' = idx + 1
             /\ calls' = Append(Answered(res),
                                [ev |-> nDelivered, op |-> "send_raw_transaction",
                                 txs |-> <<txs[idx + 1]>>, res |-> "pending"])
             /\ out' = Append(out, line)
             /\ UNCHANGED <<hpc, dispatch, handler>>
        ELSE /\ calls' = Answered(res)
             /\ out' = out \o <<line, SummaryLine(txs)>>
             /\ dispatch' = "Ok"
             /\ handler' = "Ok"
             /\ hpc' = "returned"
             /\ idx' = idx

\* mutant: the closure passes the error of broadcast_txs on (? instead of
\* if let Err)
PackageReply_Propagates(res) ==
    /\ calls' = Answered(res)
    /\ IF res = "Ok"
       THEN /\ out' = out \o <<"Ok(package result)", SummaryLine(txs)>>
            /\ dispatch' = "Ok"
            /\ handler' = "Ok"
       ELSE /\ out' = out
            /\ dispatch' = "Err"
            /\ handler' = "Err"
    /\ hpc' = "returned"
    /\ idx' = idx

\* mutant: a failed package call is printed and broadcast_txs returns Ok
PackageReply_Swallows(res) ==
    /\ calls' = Answered(res)
    /\ IF res = "Ok"
       THEN out' = out \o <<"Ok(package result)", SummaryLine(txs)>>
       ELSE out' = Append(out, "Error submitting package: " \o res)
    /\ dispatch' = "Ok"
    /\ handler' = "Ok"
    /\ hpc' = "returned"
    /\ idx' = idx

\* mutant: after a failed package call the transactions are sent one by one
PackageReply_FallsBackToSingles(res) ==
    IF res = "Ok"
    THEN /\ calls' = Answered(res)
         /\ out' = out \o <<"Ok(package result)", SummaryLine(txs)>>
         /\ dispatch' = "Ok"
         /\ handler' = "Ok"
         /\ hpc' = "returned"
         /\ idx' = idx
    ELSE /\ calls' = Append(Answered(res),
                            [ev |-> nDelivered, op |-> "send_raw_transaction",
                             txs |-> <<txs[1]>>, res |-> "pending"])
         /\ out' = Append(out, "Error submitting package: " \o res)
         /\ idx' = 1
         /\ UNCHANGED <<hpc, dispatch, handler>>

\* lines 151-156, 160-166 and 119-121: submit_package has answered
PackageReply(res) ==
    /\ calls' = Answered(res)
    /\ IF res = "Ok"
       THEN /\ out' = out \o <<"Ok(package result)", SummaryLine(txs)>>
            /\ dispatch' = "Ok"
       ELSE /\ out' = Append(out, "Error broadcasting txs: "
                                   \o "Error submitting package: " \o res)
            /\ dispatch' = "Err"
    /\ handler' = "Ok"
    /\ hpc' = "returned"
    /\ idx' = idx

\* the node answers the call in flight
NodeReply ==
    /\ hpc = "in_call"
    /\ \E res \in {"Ok"} \cup NodeErrors :
        IF calls[Len(calls)].op = "send_raw_transaction"
        THEN SendReply(res)
        ELSE PackageReply(res)
    /\ UNCHANGED <<args, pc, startupVars, cur, txs, nDelivered>>

\* lines 124-126: the closure has returned; handle_notifications goes on
\* with the next notification unless the closure returned an error
HandlerReturn ==
    /\ hpc = "returned"
    /\ pc' = IF handler = "Ok" THEN pc ELSE "exit_err"
    /\ hpc' = "idle"
    /\ cur' = NoNotification
    /\ txs' = <<>>
    /\ idx' = 0
    /\ out' = <<>>
    /\ dispatch' = "none"
    /\ handler' = "none"
    /\ UNCHANGED <<args, startupVars, calls, nDelivered>>

\* lines 126-127: the notification stream ends and main returns
StreamClosed ==
    /\ LoopReady
    /\ pc' = "exit_ok"
    /\ UNCHANGED <<args, startupVars, handlerVars>>

Next ==
    \/ CheckRelays
    \/ AddRelay
    \/ Connect
    \/ Subscribe
    \/ RpcNew
    \/ GetNetworkInfo
    \/ Deliver
    \/ NodeReply
    \/ HandlerReturn
    \/ StreamClosed

Spec == Init /\ [][Next]_vars

\* the node answers every call (the RPC client gives up after its timeout)
\* and the loop takes the closure's result
LiveSpec == Spec /\ WF_vars(NodeReply) /\ WF_vars(HandlerReturn)

\* the program over events with up to WideTags tags
WideNext ==
    \/ CheckRelays
    \/ AddRelay
    \/ Connect
    \/ Subscribe
    \/ RpcNew
    \/ GetNetworkInfo
    \/ DeliverWide
    \/ NodeReply
    \/ HandlerReturn
    \/ StreamClosed

WideSpec == Init /\ [][WideNext]_vars

(* ----------------------- vocabulary of the properties ------------------ *)

\* a notification is being handled, or its handling has just ended
Handling == hpc \in {"in_call", "returned"}

\* the calls made to the node for the notification being handled, as pairs
\* of operation and arguments
RECURSIVE CallsOf(_, _)
CallsOf(log, ev) ==
    IF log = <<>> THEN <<>>
    ELSE (IF Head(log).ev = ev
          THEN <<[op |-> Head(log).op, txs |-> Head(log).txs]>>
          ELSE <<>>) \o CallsOf(Tail(log), ev)

CurCalls == CallsOf(calls, nDelivered)

\* the positions of the tags of a kind in an event
TagsAt(e, kind) == {j \in 1..Len(e.tags) : e.tags[j].kind = kind}

Least(S) == CHOOSE j \in S : \A k \in S : j <= k

\* the values of the first tag of a kind (the event has one)
FirstValues(e, kind) == e.tags[Least(TagsAt(e, kind))].values

\* the event carries an identity tag whose value is the magic of the
\* configured network
MagicMatches(e) ==
    /\ TagsAt(e, "magic") # {}
    /\ FirstValues(e, "magic") # <<>>
    /\ MagicFromStr(FirstValues(e, "magic")[1]) = Some(NetworkMagic(args.network))

\* the identity tag is absent, or its value does not parse, or it parses to
\* another network
MagicAbsent(e) == TagsAt(e, "magic") = {}
MagicUnparsable(e) ==
    /\ TagsAt(e, "magic") # {}
    /\ FirstValues(e, "magic") # <<>>
    /\ MagicFromStr(FirstValues(e, "magic")[1]) = None
MagicDiffers(e) ==
    /\ TagsAt(e, "magic") # {}
    /\ FirstValues(e, "magic") # <<>>
    /\ MagicFromStr(FirstValues(e, "magic")[1]) # None
    /\ MagicFromStr(FirstValues(e, "magic")[1]) # Some(NetworkMagic(args.network))

\* the event carries a transactions tag with at least one entry that decodes
HasValidTx(e) ==
    /\ TagsAt(e, "transactions") # {}
    /\ \E k \in 1..Len(FirstValues(e, "transactions")) :
          DecodeTx(FirstValues(e, "transactions")[k]) # None

\* an event the bridge acts upon: listening kind and matching identity
ActedUpon(n) ==
    /\ n.type = "Event"
    /\ n.event.kind = bitcoin_tx_kind
    /\ MagicMatches(n.event)

(* ------------------------------ claims --------------------------------- *)

\* C1: for a delivered event whose identity ("magic") tag is absent, or
\* whose identity value fails to parse, or parses to a network other than
\* the configured one, no call is made to the node (neither
\* send_raw_transaction nor submit_package) and dispatch is not entered;
\* an absent tag is never an accept.
C1_NoCallOnMagicMismatch ==
    (/\ Handling
     /\ cur.type = "Event"
     /\ \/ MagicAbsent(cur.event)
        \/ MagicUnparsable(cur.event)
        \/ MagicDiffers(cur.event))
    => (CurCalls = <<>> /\ dispatch = "none" /\ hpc = "returned")

\* an event of the listening kind without identity tag, carrying a valid
\* transaction, has been handled
C1_Witness ==
    /\ hpc = "returned"
    /\ cur.type = "Event"
    /\ cur.event.kind = bitcoin_tx_kind
    /\ MagicAbsent(cur.event)
    /\ HasValidTx(cur.event)

\* C2: for a delivered event whose kind is not the listening kind 28333,
\* nothing is extracted or dispatched and no call is made to the node.
C2_NoCallOnOtherKind ==
    (Handling /\ cur.type = "Event" /\ cur.event.kind # bitcoin_tx_kind)
    => (CurCalls = <<>> /\ txs = <<>> /\ dispatch = "none" /\ hpc = "returned")

\* an event of another kind, with the identity of the configured network
\* and a valid transaction, has been handled
C2_Witness ==
    /\ hpc = "returned"
    /\ cur.type = "Event"
    /\ cur.event.kind # bitcoin_tx_kind
    /\ MagicMatches(cur.event)
    /\ HasValidTx(cur.event)

\* C3: broadcast_txs with two or more transactions calls submit_package
\* exactly once, with all the transactions in their order, and never calls
\* send_raw_transaction.
C3_PackageOnce ==
    (Handling /\ Len(txs) >= 2)
    => CurCalls = <<[op |-> "submit_package", txs |-> txs]>>

\* a dispatch of two different transactions has ended
C3_Witness ==
    /\ hpc = "returned"
    /\ Len(txs) >= 2
    /\ txs[1] # txs[2]
    /\ Len(CurCalls) = 1

\* C4: broadcast_txs with exactly one transaction calls
\* send_raw_transaction exactly once, also when the node rejects the
\* transaction (no retry), and never calls submit_package.
C4_SendOnce ==
    (Handling /\ Len(txs) = 1)
    => CurCalls = <<[op |-> "send_raw_transaction", txs |-> txs]>>

\* a dispatch of one transaction has ended with the node rejecting it
C4_Witness ==
    /\ hpc = "returned"
    /\ Len(txs) = 1
    /\ Len(CurCalls) = 1
    /\ calls[Len(calls)].ev = nDelivered
    /\ calls[Len(calls)].res \in NodeErrors

\* C5: broadcast_txs with no transaction makes no call to the node and
\* returns Ok; an event acted upon that has no transactions tag gives the
\* empty list, hence no call.
C5_EmptyNoCall ==
    /\ (hpc = "returned" /\ ActedUpon(cur) /\ txs = <<>>)
          => (CurCalls = <<>> /\ dispatch = "Ok")
    /\ (Handling /\ ActedUpon(cur) /\ TagsAt(cur.event, "transactions") = {})
          => (txs = <<>> /\ hpc = "returned")

\* an event acted upon that has no transactions tag has been handled
C5_Witness ==
    /\ hpc = "returned"
    /\ ActedUpon(cur)
    /\ TagsAt(cur.event, "transactions") = {}
    /\ dispatch = "Ok"

\* the entries of a transactions tag that decode
ValidAt(vals) == {k \in 1..Len(vals) : DecodeTx(vals[k]) # None}

\* C6: for an event acted upon whose transactions tag holds valid and
\* invalid entries (bad hex or bad binary) in any interleaving, the
\* extracted list is exactly the decoded valid entries, in their relative
\* order: the k-th extracted transaction is the k-th valid entry.
C6_ExtractValidInOrder ==
    (Handling /\ ActedUpon(cur) /\ TagsAt(cur.event, "transactions") # {})
    => LET vals == FirstValues(cur.event, "transactions") IN
       /\ Len(txs) = Cardinality(ValidAt(vals))
       /\ \E f \in [1..Len(txs) -> 1..Len(vals)] :
            /\ \A k \in 1..Len(txs) : f[k] \in ValidAt(vals)
            /\ \A k, l \in 1..Len(txs) : k < l => f[k] < f[l]
            /\ \A k \in 1..Len(txs) : Some(txs[k]) = DecodeTx(vals[f[k]])

\* two different valid entries with an invalid one between them have been
\* extracted
C6_Witness ==
    /\ Handling
    /\ ActedUpon(cur)
    /\ TagsAt(cur.event, "transactions") # {}
    /\ LET vals == FirstValues(cur.event, "transactions") IN
       /\ Len(vals) = 3
       /\ ValidAt(vals) = {1, 3}
       /\ vals[1] # vals[3]
    /\ Len(txs) = 2

\* a call of that operation made for the notification being handled has
\* failed
CurFailed(op) ==
    \E k \in 1..Len(calls) :
        /\ calls[k].ev = nDelivered
        /\ calls[k].op = op
        /\ calls[k].res \in NodeErrors

Lines(o) == {o[k] : k \in 1..Len(o)}

\* C7: whatever the delivered notifications and the node's answers
\* (package call failed, transaction rejected, nothing decodable, other
\* network), the closure returns Ok, the loop is ended by nothing but the
\* end of the notification stream, and every handling ends with the loop
\* ready for the next notification.
C7_LoopSurvives ==
    /\ [](hpc = "returned" => (handler = "Ok" /\ pc = "listening"))
    /\ [][hpc = "returned" => (hpc' = "idle" /\ pc' = "listening")]_vars
    /\ [][(pc = "listening" /\ pc' # "listening")
            => (hpc = "idle" /\ pc' = "exit_ok")]_vars
    /\ (hpc # "idle") ~> (hpc = "idle" /\ pc = "listening")

\* after a failed package call for the first notification, the second
\* notification has been handled with a call to the node
C7_Witness ==
    /\ nDelivered = 2
    /\ Len(calls) = 2
    /\ calls[1].ev = 1
    /\ calls[1].op = "submit_package"
    /\ calls[1].res \in NodeErrors
    /\ calls[2].ev = 2
    /\ calls[2].res = "Ok"
    /\ hpc = "returned"
    /\ handler = "Ok"

\* C8: the subscription is made only after the node connection has been
\* made and confirmed, and a failure to reach the node stops the process
\* before any subscription exists.
C8_SubscribeOnlyAfterNodeConfirmed ==
    /\ pool.subscribed => rpc = "confirmed"
    /\ pc = "panicked" => ~pool.subscribed

\* the summary line of line 164 for the dispatched transactions, the txids
\* in order with commas between them
RECURSIVE CommaList(_, _)
CommaList(ts, k) ==
    IF k = 0 THEN ""
    ELSE IF k = 1 THEN ts[1].txid
    ELSE CommaList(ts, k - 1) \o "," \o ts[k].txid

ExpectedSummary == "Submitted transactions: " \o CommaList(txs, Len(txs))

\* C9 as stated: after a dispatch that called the node, by either path and
\* whatever the node answered, the summary line with the txid of every
\* submitted transaction, in order, has been printed.
C9_SummaryAlways ==
    (hpc = "returned" /\ CurCalls # <<>>)
    => (out # <<>> /\ out[Len(out)] = ExpectedSummary)

\* C9 amended: after a dispatch by the single-item path, whatever the node
\* answered, and after a dispatch by the package path whose call succeeded,
\* the summary line with the txid of every submitted transaction, in order,
\* is the last line printed; when the package call itself fails,
\* broadcast_txs returns the error first and no summary line is printed.
C9_SummaryUnlessPackageFails ==
    (hpc = "returned" /\ CurCalls # <<>>)
    => IF CurFailed("submit_package")
       THEN ExpectedSummary \notin Lines(out)
       ELSE out # <<>> /\ out[Len(out)] = ExpectedSummary

\* a rejected single transaction is followed by the summary line
C9_Witness ==
    /\ hpc = "returned"
    /\ CurFailed("send_raw_transaction")
    /\ out[Len(out)] = "Submitted transactions: txidA"

\* C10: broadcast_txs returns an error if and only if it took the package
\* path (two or more transactions) and the package call itself failed; a
\* rejected single transaction is printed and swallowed, and broadcast_txs
\* returns Ok.
C10_ErrIffPackageFails ==
    (hpc = "returned" /\ dispatch # "none")
    => /\ dispatch = "Err" <=> (Len(txs) >= 2 /\ CurFailed("submit_package"))
       /\ CurFailed("send_raw_transaction")
            => (dispatch = "Ok"
                /\ \E e \in NodeErrors : ("Error broadcasting tx: " \o e) \in Lines(out))

\* broadcast_txs has returned Ok although the node rejected the single
\* transaction
C10_Witness ==
    /\ hpc = "returned"
    /\ Len(txs) = 1
    /\ CurFailed("send_raw_transaction")
    /\ dispatch = "Ok"
    /\ handler = "Ok"

\* broadcast_txs has been entered for the notification being handled
Dispatched == hpc = "in_call" \/ dispatch # "none"

\* the k-th entry that decodes among the values of a transactions tag
KthValid(vals, k) ==
    CHOOSE i \in ValidAt(vals) : Cardinality({j \in ValidAt(vals) : j <= i}) = k

\* the transactions the values of a tag decode to
DecodedOf(vals) ==
    [k \in 1..Cardinality(ValidAt(vals)) |-> DecodeTx(vals[KthValid(vals, k)])[1]]

\* C11: both tag lookups take the first match.  Of several identity tags
\* the first alone decides whether the event is acted upon (a first tag
\* that is malformed or of another network rejects the event even when a
\* later one matches), and of several transactions tags the first alone
\* gives the transactions.
C11_FirstMatchWins ==
    (Handling /\ cur.type = "Event" /\ cur.event.kind = bitcoin_tx_kind)
    => /\ Dispatched <=> MagicMatches(cur.event)
       /\ (Dispatched /\ TagsAt(cur.event, "transactions") # {})
            => txs = DecodedOf(FirstValues(cur.event, "transactions"))
       /\ (Dispatched /\ TagsAt(cur.event, "transactions") = {}) => txs = <<>>

\* an event whose first identity tag does not match, whose second identity
\* tag is that of the configured network and which carries a valid
\* transaction, has been handled without a call
C11_Witness ==
    /\ hpc = "returned"
    /\ cur.type = "Event"
    /\ cur.event.kind = bitcoin_tx_kind
    /\ Cardinality(TagsAt(cur.event, "magic")) = 2
    /\ ~MagicMatches(cur.event)
    /\ \E j \in TagsAt(cur.event, "magic") :
          /\ cur.event.tags[j].values # <<>>
          /\ MagicFromStr(cur.event.tags[j].values[1]) = Some(NetworkMagic(args.network))
    /\ HasValidTx(cur.event)
    /\ CurCalls = <<>>

\* an event acted upon with two transactions tags holding different
\* transactions: only the first tag's transaction is sent
C11_WitnessTransactions ==
    /\ Handling
    /\ ActedUpon(cur)
    /\ Cardinality(TagsAt(cur.event, "transactions")) = 2
    /\ \E j \in TagsAt(cur.event, "transactions") :
          /\ j # Least(TagsAt(cur.event, "transactions"))
          /\ ValidAt(cur.event.tags[j].values) # {}
          /\ cur.event.tags[j].values # FirstValues(cur.event, "transactions")
    /\ Len(txs) = 1
    /\ CurCalls = <<[op |-> "send_raw_transaction", txs |-> txs]>>

\* the positions of the calls that the node has not answered yet
Pending == {k \in 1..Len(calls) : calls[k].res = "pending"}

\* C12: notifications are handled one at a time in the order of delivery.
\* At most one call to the node is in flight, it is the latest call and it
\* belongs to the notification being handled; the next notification is
\* taken only when every call has been answered and the handling of the
\* previous one has ended; and the calls follow the order of delivery of
\* the notifications they are made for.
C12_OneAtATimeInOrder ==
    /\ [](/\ Cardinality(Pending) <= 1
          /\ \A k \in Pending : k = Len(calls) /\ calls[k].ev = nDelivered
          /\ Pending # {} <=> hpc = "in_call"
          /\ \A k, l \in 1..Len(calls) : k < l => calls[k].ev <= calls[l].ev)
    /\ [][nDelivered' # nDelivered
            => (/\ Pending = {}
                /\ hpc = "idle"
                /\ nDelivered' = nDelivered + 1
                /\ \A k \in 1..Len(calls) : calls[k].ev <= nDelivered
                /\ \A k \in 1..Len(calls') :
                      k > Len(calls) => calls'[k].ev = nDelivered')]_vars

\* the call for the second notification is in flight and the call for the
\* first one has been answered
C12_Witness ==
    /\ nDelivered = 2
    /\ hpc = "in_call"
    /\ Len(calls) = 2
    /\ calls[1].ev = 1
    /\ calls[1].res # "pending"
    /\ calls[2].ev = 2
    /\ calls[2].res = "pending"

\* the calls an event asks for, from the notification and the configured
\* network alone
ExpectedCalls(n) ==
    IF ~ActedUpon(n) \/ TagsAt(n.event, "transactions") = {} THEN <<>>
    ELSE LET ts == DecodedOf(FirstValues(n.event, "transactions")) IN
         IF Len(ts) = 0 THEN <<>>
         ELSE IF Len(ts) = 1 THEN <<[op |-> "send_raw_transaction", txs |-> ts]>>
         ELSE <<[op |-> "submit_package", txs |-> ts]>>

\* C13: the handling keeps nothing from one notification to the next.  The
\* calls made for a notification (operation and transactions) are a
\* function of that notification and of the configured network, whatever
\* was delivered before and whatever the node answered before; so a payload
\* delivered again is submitted again.
C13_CallsDependOnEventOnly ==
    Handling => CurCalls = ExpectedCalls(cur)

\* the same transactions have been submitted for two notifications, the
\* node having accepted them the first time
C13_Witness ==
    /\ nDelivered = 2
    /\ Len(calls) = 2
    /\ calls[1].ev = 1
    /\ calls[2].ev = 2
    /\ calls[1].op = calls[2].op
    /\ calls[1].txs = calls[2].txs
    /\ calls[1].res = "Ok"

\* C14: with no relay configured, start-up fails before anything is
\* connected: no relay is added or connected, no subscription is made, no
\* node client is created, and no notification is ever handled.
C14_NoRelaysFailsFirst ==
    args.relays = 0
    => /\ pc \in {"start", "exit_err"}
       /\ pool = [added |-> 0, connected |-> FALSE, subscribed |-> FALSE]
       /\ rpc = "none"
       /\ nDelivered = 0
       /\ hpc = "idle"
       /\ calls = <<>>

\* main has returned the error for an empty relay list
C14_Witness ==
    /\ args.relays = 0
    /\ pc = "exit_err"
    /\ ~pool.connected
    /\ rpc = "none"

\* C16: no notification is handled and no call (send_raw_transaction or
\* submit_package) is made before get_network_info has confirmed the node;
\* when creating the client or that query fails, the process stops and
\* never handles a notification.
C16_NoHandlingBeforeNodeConfirmed ==
    /\ (nDelivered > 0 \/ hpc # "idle" \/ calls # <<>> \/ pc = "listening")
          => rpc = "confirmed"
    /\ pc = "panicked"
          => /\ rpc # "confirmed"
             /\ nDelivered = 0
             /\ calls = <<>>
             /\ ~ENABLED Next

\* the query of the node has failed after the client was created: the
\* process has stopped, nothing was handled
C16_Witness ==
    /\ pc = "panicked"
    /\ rpc = "created"
    /\ nDelivered = 0

\* the calls of an operation made for the notification being handled
CurCallsOf(op) == {k \in 1..Len(calls) : calls[k].ev = nDelivered /\ calls[k].op = op}

\* C15: the way of submitting is chosen by the number of entries that
\* decode, not by the number of entries of the transactions tag.  The tag
\* [hexA, invalid, hexB] gives one package call with [txA, txB]; several
\* entries of which exactly one decodes give one send_raw_transaction call
\* and no package call; entries that all fail to decode give no call.
C15_StrategyByDecodedCount ==
    (Handling /\ ActedUpon(cur) /\ TagsAt(cur.event, "transactions") # {})
    => LET vals == FirstValues(cur.event, "transactions")
           n == Cardinality(ValidAt(vals))
       IN  /\ n = 0 => CurCalls = <<>>
           /\ n = 1 => (/\ Cardinality(CurCallsOf("send_raw_transaction")) = 1
                        /\ CurCallsOf("submit_package") = {})
           /\ n >= 2 => (/\ Cardinality(CurCallsOf("submit_package")) = 1
                         /\ CurCallsOf("send_raw_transaction") = {}
                         /\ Len(calls[Len(calls)].txs) = n)
           /\ vals = <<"aa", "zz", "bb">>
                 => CurCalls = <<[op |-> "submit_package",
                                  txs |-> <<[txid |-> "txidA"], [txid |-> "txidB"]>>]>>

\* a tag of three entries of which one decodes has led to one
\* send_raw_transaction call
C15_Witness ==
    /\ hpc = "returned"
    /\ ActedUpon(cur)
    /\ TagsAt(cur.event, "transactions") # {}
    /\ Len(FirstValues(cur.event, "transactions")) = 3
    /\ Cardinality(ValidAt(FirstValues(cur.event, "transactions"))) = 1
    /\ Cardinality(CurCallsOf("send_raw_transaction")) = 1

\* the tag [hexA, invalid, hexB] has led to the package call
C15_WitnessPackage ==
    /\ Handling
    /\ ActedUpon(cur)
    /\ TagsAt(cur.event, "transactions") # {}
    /\ FirstValues(cur.event, "transactions") = <<"aa", "zz", "bb">>
    /\ Cardinality(CurCallsOf("submit_package")) = 1

\* C17: the identity filter looks at the first value of the first identity
\* tag only.  An identity tag without value is no match; a first value
\* that parses to the configured network is a match, also when other
\* values follow it.
C17_FirstValueDecides ==
    (/\ Handling
     /\ cur.type = "Event"
     /\ cur.event.kind = bitcoin_tx_kind
     /\ TagsAt(cur.event, "magic") # {})
    => LET vals == FirstValues(cur.event, "magic") IN
       /\ vals = <<>> => ~Dispatched
       /\ vals # <<>>
            => (Dispatched
                  <=> MagicFromStr(vals[1]) = Some(NetworkMagic(args.network)))

\* an identity tag of two values, the first of the configured network and
\* the second not, has let the event through to a call
C17_Witness ==
    /\ Handling
    /\ cur.type = "Event"
    /\ cur.event.kind = bitcoin_tx_kind
    /\ TagsAt(cur.event, "magic") # {}
    /\ Len(FirstValues(cur.event, "magic")) = 2
    /\ MagicFromStr(FirstValues(cur.event, "magic")[1]) = Some(NetworkMagic(args.network))
    /\ MagicFromStr(FirstValues(cur.event, "magic")[2]) # Some(NetworkMagic(args.network))
    /\ CurCalls # <<>>

\* an identity tag without value has been handled: no dispatch
C17_WitnessNoValue ==
    /\ hpc = "returned"
    /\ cur.type = "Event"
    /\ cur.event.kind = bitcoin_tx_kind
    /\ TagsAt(cur.event, "magic") # {}
    /\ FirstValues(cur.event, "magic") = <<>>
    /\ HasValidTx(cur.event)

\* C18: at most one call to the node is made for a delivered notification:
\* never both operations, and neither of them twice.
C18_AtMostOneCallPerEvent ==
    /\ \A k, l \in 1..Len(calls) : calls[k].ev = calls[l].ev => k = l
    /\ Len(calls) <= nDelivered
    /\ Cardinality(CurCallsOf("send_raw_transaction"))
          + Cardinality(CurCallsOf("submit_package")) <= 1

\* the handling of a notification has ended after a failed package call,
\* with that one call
C18_Witness ==
    /\ hpc = "returned"
    /\ CurFailed("submit_package")
    /\ Cardinality(CurCallsOf("submit_package")) = 1
    /\ CurCallsOf("send_raw_transaction") = {}

====
